---- MODULE Spec2Model ----
(***************************************************************************)
(* Model of the wagered-chess Game Manager (ChessGameManager, capture-     *)
(* based payment model) together with the socket layer that drives it      *)
(* (SocketHandler): one game, its two seats, the three timer families,     *)
(* the awaited external calls of the socket handlers and the game-end      *)
(* handling.  The chess position engine is opaque: a move attempt draws    *)
(* its outcome (illegal / applied, captured piece, terminal condition)     *)
(* from the engine's possible answers.                                     *)
(***************************************************************************)
EXTENDS Integers, Sequences, FiniteSets, TLC

VARIABLES
  sock,             \* socket id -> "unused" | "open" | "closed" (transport connections)
  games,            \* ChessGameManager.games: the set of registered game ids
  playerToGame,     \* ChessGameManager.playerToGame: socket ids mapped to the game
  game,             \* the GameState object (also reachable through closures after removal)
  turnTimers,       \* the turn clock registered in turnTimers: "none" | "pending"
  pauseTimers,      \* the pause clock registered in pauseTimers: [st, forSlot]
  leakedPause,      \* pause timeouts still pending but no longer in pauseTimers, by captured slot
  disconnectTimers, \* the grace clocks registered in disconnectTimers: slot -> "none" | "pending"
  wagerInFlight,    \* submit_wager handlers awaiting verifyAndBroadcastTx, by captured slot
  fundsInFlight,    \* funds_added handlers awaiting fetchBalance, by captured slot
  geSettling,       \* handleGameEnd invocations awaiting escrowManager.settle
  removalTimers,    \* handleGameEnd invocations past settle: db.recordGameEnd called, removeGame due
  lastResult,       \* the GameOverResult most recently computed
  lastRefund,       \* wagerRefund flagged by handleDisconnect: [address, amount]
  lastSettle,       \* the arguments of the latest escrowManager.settle call
  endGameCalls,     \* number of endGame / endGameDraw invocations
  gameEndCalls,     \* number of handleGameEnd invocations
  recordCalls,      \* number of db.recordGameEnd invocations
  pauseCalls,       \* number of pauseForFunds invocations
  createOutcome,    \* how the latest createGame call ended: "game" | "not_found" | "threw"
  regSock,          \* registry view: socket id -> "open" | "closed"
  regGames,         \* registry view of games: game id -> [phase, white, black]
  regPlayerToGame,  \* registry view of playerToGame: socket id -> game id (0 = no entry)
  regCreated,       \* registry view: number of games created so far
  leakedTurn,       \* turn timeouts still pending but no longer in turnTimers
  drawOfferSeen,    \* observer's note of the seat that last sent offer_draw (the program keeps none)
  lobbySock,        \* lobby view: socket id -> "open" | "closed"
  lobbyPlayers,     \* LobbyManager.players: socket id -> address of its record (0 = no record)
  addressToSocket   \* LobbyManager.addressToSocket: address -> socket id (0 = no entry)

vars == << sock, games, playerToGame, game, turnTimers, pauseTimers, leakedPause,
           disconnectTimers, wagerInFlight, fundsInFlight, geSettling,
           removalTimers, lastResult, lastRefund, lastSettle, endGameCalls, gameEndCalls,
           recordCalls, pauseCalls, createOutcome,
           regSock, regGames, regPlayerToGame, regCreated,
           leakedTurn, drawOfferSeen, lobbySock, lobbyPlayers, addressToSocket >>

\* the manager's registry seen across several games
regVars == << regSock, regGames, regPlayerToGame, regCreated >>

\* the state of the single game followed move by move
gameVars == << sock, games, playerToGame, game, turnTimers, pauseTimers, leakedPause,
               disconnectTimers, wagerInFlight, fundsInFlight, geSettling,
               removalTimers, lastResult, lastRefund, lastSettle, endGameCalls,
               gameEndCalls, recordCalls, pauseCalls, createOutcome,
               leakedTurn, drawOfferSeen >>

\* the lobby's registries
lobbyVars == << lobbySock, lobbyPlayers, addressToSocket >>

\* what a handler of the single game never touches
restVars == << drawOfferSeen, regVars, lobbyVars >>

----------------------------------------------------------------------------
(* Bounds of the model *)

NumSockets == 3
MaxMoves == 2
MaxPauses == 1
MaxPausesFunds == 2
MaxWagerInFlight == 1
MaxFundsInFlight == 1
MaxWagerOverlap == 2
NumRegSockets == 4
MaxGames == 2
NumLobbySockets == 3
NumLobbyAddresses == 2

(* Program constants *)

PLATFORM_CUT_PERCENT == 3
DustLimit == 546
GameId == 1

NULL == "null"
Slots == {"white", "black"}
Sockets == 1..NumSockets
P1Sid == 1
P2Sid == 2
P1Addr == "addr1"
P2Addr == "addr2"
Addresses == {P1Addr, P2Addr, "addr3"}
\* the addresses the client behind a socket presents in reconnect_game: the first
\* two sockets are the two players' original clients, later sockets are new
\* connections that may present any address
ClientAddresses(s) ==
  IF s = P1Sid THEN {P1Addr} ELSE IF s = P2Sid THEN {P2Addr} ELSE Addresses

TierInputs == {100, 7}
PriceInputs == {30, 0}
CapturedInputs == {"p", "q"}
\* what the position engine reports after a move: none of its terminal tests, or
\* the first one that answers true
TerminalInputs == {"none", "checkmate", "stalemate", "threefold_repetition",
                   "insufficient_material", "fifty_move_rule"}
\* Math.random() < 0.5 in createGame; the two outcomes are mirror images
ColorInputs == {TRUE}

----------------------------------------------------------------------------
(* Constants.ts *)

STAKE_TIERS ==
  { [tier |-> 1,    depositCents |-> 1,    baseCents |-> 1],
    [tier |-> 25,   depositCents |-> 25,   baseCents |-> 25],
    [tier |-> 50,   depositCents |-> 50,   baseCents |-> 50],
    [tier |-> 100,  depositCents |-> 100,  baseCents |-> 100],
    [tier |-> 500,  depositCents |-> 500,  baseCents |-> 500],
    [tier |-> 1000, depositCents |-> 1000, baseCents |-> 1000] }

HasTier(t) == \E d \in STAKE_TIERS : d.tier = t

getTierByValue(t) == CHOOSE d \in STAKE_TIERS : d.tier = t

PIECE_CAPTURE_PERCENT ==
  [k |-> 100, q |-> 90, r |-> 80, b |-> 70, n |-> 70, p |-> 20]

\* Math.ceil(a / b) for a >= 0, b > 0
CeilDiv(a, b) == (a + b - 1) \div b

\* Math.ceil(cents / 100 / price * 100000000), price > 0
\* a conversion that takes a coin for ten million units
centsToSatsTenth(cents, bsvPriceUsd) == CeilDiv(cents * 100000, bsvPriceUsd)

centsToSats(cents, bsvPriceUsd) == CeilDiv(cents * 1000000, bsvPriceUsd)

\* if (bsvPriceUsd <= 0) throw new Error('Invalid BSV price')
centsToSatsThrows(bsvPriceUsd) == bsvPriceUsd <= 0

----------------------------------------------------------------------------
(* ChessGameManager helpers *)

\* a slot function that answers the slot it was given
sameSlot(s) == s

opponentSlot(s) == IF s = "white" THEN "black" ELSE "white"

getSlot(g, sid) ==
  IF g.white.socketId = sid THEN "white"
  ELSE IF g.black.socketId = sid THEN "black"
  ELSE NULL

\* getGameBySocket(sid) is defined (the id is mapped and the game registered)
HasGameBySocket(sid) == sid \in playerToGame /\ GameId \in games

\* the seat that is not to move
notToMove(g) == IF g.turn = "w" THEN "black" ELSE "white"

\* game.chess.turn() === 'w' ? 'white' : 'black'
currentTurn(g) == IF g.turn = "w" THEN "white" ELSE "black"

mkPlayer(sid, addr, color) ==
  [socketId |-> sid, address |-> addr, color |-> color, wagerPaid |-> FALSE,
   moveCount |-> 0, connected |-> TRUE, disconnectedAt |-> NULL]

NoResult ==
  [winner |-> NULL, loser |-> NULL, reason |-> NULL, pot |-> 0, winnerPayout |-> 0,
   loserPayout |-> 0, platformCut |-> 0]

\* the GameState before createGame has produced one
NoGame ==
  [phase |-> NULL, depositSats |-> 0, baseSats |-> 0, bsvPriceAtStart |-> 0,
   turn |-> "w", white |-> mkPlayer(0, NULL, "white"), black |-> mkPlayer(0, NULL, "black"),
   pot |-> 0, pendingPayment |-> NULL, capturePayments |-> << >>,
   pausedFor |-> NULL, pausedAt |-> NULL, pauseReason |-> NULL,
   startedAt |-> NULL, endedAt |-> NULL, endReason |-> NULL, winner |-> NULL,
   moveHistory |-> << >>]

NoSettle == [to |-> NULL, amount |-> 0, platform |-> 0]

\* wagerRefund undefined
NoRefund == [address |-> NULL, amount |-> 0]

NoPauseTimer == [st |-> "none", forSlot |-> NULL]

\* a timers entry that survives its clear
Uncleared == "pending"

\* a startTurnTimer that registers the new timeout without clearing the old one
startTurnTimerNoClear ==
  /\ turnTimers' = "pending"
  /\ leakedTurn' = IF turnTimers = "pending" THEN leakedTurn + 1 ELSE leakedTurn

\* startTurnTimer(game): clearTurnTimer, then setTimeout and turnTimers.set
startTurnTimer ==
  /\ turnTimers' = "pending"
  /\ leakedTurn' = leakedTurn

\* clearTimeout + delete of a timers entry: whatever was registered is gone.
\* An entry whose timeout has already fired stays in the map until the next clear;
\* clearTimeout on it does nothing, so it is the same as no entry.
Cleared == "none"

----------------------------------------------------------------------------
(* Settlement Calculator: endGame / endGameDraw *)

RECURSIVE capturePlatformCut(_)
\* game.capturePayments.reduce((sum, cp) => sum + cp.platformSats, 0)
capturePlatformCut(cps) ==
  IF cps = << >> THEN 0 ELSE Head(cps).platformSats + capturePlatformCut(Tail(cps))

RECURSIVE captureEarningsUnfiltered(_, _)
\* the capturer shares of the whole ledger, whoever the capturer
captureEarningsUnfiltered(cps, winner) ==
  IF cps = << >> THEN 0
  ELSE Head(cps).capturerSats + captureEarningsUnfiltered(Tail(cps), winner)

RECURSIVE captureEarnings(_, _)
\* capturePayments.filter(cp => cp.toSlot === winner).reduce(sum + cp.capturerSats)
captureEarnings(cps, winner) ==
  IF cps = << >> THEN 0
  ELSE (IF Head(cps).toSlot = winner THEN Head(cps).capturerSats ELSE 0)
       + captureEarnings(Tail(cps), winner)

\* the fields endGame assigns (timers are cleared by the calling action)
endGame(g, winner, reason) ==
  [g EXCEPT !.phase = "gameover", !.endedAt = "set", !.endReason = reason,
            !.winner = winner, !.pendingPayment = NULL]

\* the GameOverResult endGame returns
endGameResult(g, winner, reason) ==
  LET ownDeposit == g.depositSats
      loserDeposit == g.depositSats
      depositPlatformCut == CeilDiv(loserDeposit * PLATFORM_CUT_PERCENT, 100)
      depositToWinner == loserDeposit - depositPlatformCut
      totalPlatformCut == depositPlatformCut + capturePlatformCut(g.capturePayments)
      winnerPayout == ownDeposit + depositToWinner
                      + captureEarnings(g.capturePayments, winner)
  IN [winner |-> winner, loser |-> opponentSlot(winner), reason |-> reason,
      pot |-> g.pot + g.depositSats * 2,
      winnerPayout |-> winnerPayout, loserPayout |-> 0,
      platformCut |-> totalPlatformCut]

\* the fields endGameDraw assigns
endGameDraw(g, reason) ==
  [g EXCEPT !.phase = "gameover", !.endedAt = "set", !.endReason = reason,
            !.winner = NULL, !.pendingPayment = NULL]

\* the deposit less 3%, rounded up
depositReturnCeil(depositSats) ==
  CeilDiv(depositSats * (100 - PLATFORM_CUT_PERCENT), 100)

\* Math.floor(depositSats * (1 - PLATFORM_CUT_PERCENT / 100))
depositReturn(depositSats) == (depositSats * (100 - PLATFORM_CUT_PERCENT)) \div 100

\* the GameOverResult endGameDraw returns
endGameDrawResult(g, reason) ==
  [winner |-> NULL, loser |-> NULL, reason |-> reason,
   pot |-> g.pot + g.depositSats * 2,
   winnerPayout |-> depositReturn(g.depositSats),
   loserPayout |-> depositReturn(g.depositSats),
   platformCut |-> (g.depositSats - depositReturn(g.depositSats)) * 2]

\* endGame and endGameDraw cancel every timer registered for the game
ClearAllTimers ==
  /\ turnTimers' = Cleared
  /\ pauseTimers' = NoPauseTimer
  /\ disconnectTimers' = [s \in Slots |-> Cleared]

----------------------------------------------------------------------------
(* SocketHandler.handleGameEnd: settle escrow, record, schedule removal *)

\* whether handleGameEnd reaches escrowManager.settle for this result
settleDue(result) ==
  IF result.winner # NULL
  THEN result.pot > 0 /\ (result.winnerPayout > DustLimit \/ result.platformCut > DustLimit)
  ELSE result.pot > 0 /\ result.winnerPayout > DustLimit

\* the arguments of escrowManager.settle
settleCall(g, result) ==
  IF result.winner # NULL
  THEN [to |-> g[result.winner].address, amount |-> result.winnerPayout,
        platform |-> result.platformCut]
  ELSE [to |-> g.white.address, amount |-> result.winnerPayout,
        platform |-> result.platformCut + result.loserPayout]

\* the synchronous part of handleGameEnd(game, result), up to its first await
handleGameEnd(g, result) ==
  /\ gameEndCalls' = gameEndCalls + 1
  /\ IF settleDue(result)
     THEN /\ lastSettle' = settleCall(g, result)
          /\ geSettling' = geSettling + 1
          /\ UNCHANGED << recordCalls, removalTimers >>
     ELSE /\ recordCalls' = recordCalls + 1
          /\ removalTimers' = removalTimers + 1
          /\ UNCHANGED << lastSettle, geSettling >>

NoGameEnd ==
  UNCHANGED << gameEndCalls, lastSettle, geSettling, recordCalls, removalTimers >>

\* escrowManager.settle returned (success or failure): the results are emitted and
\* db.recordGameEnd is called; once that returns (or throws) the removal timeout is
\* set: setTimeout(() => removeGame(game.id), 60_000).  The wait for recordGameEnd
\* and the 60 s of the timeout are one delay before removeGame.
GameEndSettled ==
  /\ geSettling > 0
  /\ geSettling' = geSettling - 1
  /\ recordCalls' = recordCalls + 1
  /\ removalTimers' = removalTimers + 1
  /\ UNCHANGED << sock, games, playerToGame, game, turnTimers, pauseTimers, leakedPause,
                  disconnectTimers, wagerInFlight, fundsInFlight, lastResult, lastRefund,
                  lastSettle, endGameCalls, gameEndCalls, pauseCalls, createOutcome, leakedTurn, restVars >>

\* the removal timeout fires: gameManager.removeGame(id)
RemoveGame ==
  /\ removalTimers > 0
  /\ removalTimers' = removalTimers - 1
  /\ IF GameId \notin games
     THEN UNCHANGED << games, playerToGame, turnTimers, pauseTimers, disconnectTimers >>
     ELSE /\ playerToGame' = playerToGame \ {game.white.socketId, game.black.socketId}
          /\ ClearAllTimers
          /\ games' = games \ {GameId}
  /\ UNCHANGED << sock, game, leakedPause, wagerInFlight, fundsInFlight, geSettling, lastResult, lastRefund, lastSettle, endGameCalls,
                  gameEndCalls, recordCalls, pauseCalls, createOutcome, leakedTurn, restVars >>

----------------------------------------------------------------------------
(* Transport: a client connects (io.on('connection')) *)

Connection(s) ==
  /\ sock[s] = "unused"
  /\ sock' = [sock EXCEPT ![s] = "open"]
  /\ UNCHANGED << games, playerToGame, game, turnTimers, pauseTimers, leakedPause,
                  disconnectTimers, wagerInFlight, fundsInFlight, geSettling,
                  removalTimers, lastResult, lastRefund, lastSettle, endGameCalls,
                  gameEndCalls, recordCalls, pauseCalls, createOutcome, leakedTurn, restVars >>

----------------------------------------------------------------------------
(* createGame (find_match / accept_challenge) *)

CreateGame(tierValue, bsvPrice, p1IsWhite) ==
  /\ game.phase = NULL
  /\ sock[P1Sid] = "open" /\ sock[P2Sid] = "open"
  /\ IF ~HasTier(tierValue)
     THEN /\ createOutcome' = "not_found"
          /\ UNCHANGED << games, playerToGame, game >>
     ELSE IF centsToSatsThrows(bsvPrice)
     THEN /\ createOutcome' = "threw"
          /\ UNCHANGED << games, playerToGame, game >>
     ELSE LET tier == getTierByValue(tierValue) IN
          /\ createOutcome' = "game"
          /\ game' = [NoGame EXCEPT
                !.phase = "awaiting_wagers",
                !.depositSats = centsToSats(tier.depositCents, bsvPrice),
                !.baseSats = centsToSats(tier.baseCents, bsvPrice),
                !.bsvPriceAtStart = bsvPrice,
                !.white = mkPlayer(IF p1IsWhite THEN P1Sid ELSE P2Sid,
                                   IF p1IsWhite THEN P1Addr ELSE P2Addr, "white"),
                !.black = mkPlayer(IF p1IsWhite THEN P2Sid ELSE P1Sid,
                                   IF p1IsWhite THEN P2Addr ELSE P1Addr, "black")]
          /\ games' = games \cup {GameId}
          /\ playerToGame' = playerToGame \cup {P1Sid, P2Sid}
  /\ UNCHANGED << sock, turnTimers, pauseTimers, leakedPause, disconnectTimers,
                  wagerInFlight, fundsInFlight, geSettling, removalTimers,
                  lastResult, lastRefund, lastSettle, endGameCalls, gameEndCalls,
                  recordCalls, pauseCalls, leakedTurn, restVars >>

----------------------------------------------------------------------------
(* Deposits: requestWagerPayment, submit_wager, confirmWagerPayment *)

RequestWagerPayment(slot) ==
  /\ GameId \in games
  /\ game.phase = "awaiting_wagers"
  /\ ~game[slot].wagerPaid
  /\ game' = [game EXCEPT !.pendingPayment = slot]
  /\ UNCHANGED << sock, games, playerToGame, turnTimers, pauseTimers, leakedPause,
                  disconnectTimers, wagerInFlight, fundsInFlight, geSettling,
                  removalTimers, lastResult, lastRefund, lastSettle, endGameCalls,
                  gameEndCalls, recordCalls, pauseCalls, createOutcome, leakedTurn, restVars >>

\* submit_wager up to its await of verifyAndBroadcastTx; at most `limit` handlers
\* wait for the verification at a time
SubmitWagerBegin(s, limit) ==
  /\ sock[s] = "open"
  /\ HasGameBySocket(s)
  /\ game.phase = "awaiting_wagers"
  /\ getSlot(game, s) # NULL
  /\ ~game[getSlot(game, s)].wagerPaid
  /\ wagerInFlight["white"] + wagerInFlight["black"] < limit
  /\ wagerInFlight' = [wagerInFlight EXCEPT ![getSlot(game, s)] = @ + 1]
  /\ UNCHANGED << sock, games, playerToGame, game, turnTimers, pauseTimers, leakedPause,
                  disconnectTimers, fundsInFlight, geSettling, removalTimers,
                  lastResult, lastRefund, lastSettle, endGameCalls, gameEndCalls,
                  recordCalls, pauseCalls, createOutcome, leakedTurn, restVars >>

\* the GameState after confirmWagerPayment(gameId, slot, txid) found the game
confirmWagerPayment(g, slot) ==
  LET paid == [g EXCEPT ![slot].wagerPaid = TRUE,
                        !.pot = @ + g.depositSats,
                        !.pendingPayment = NULL]
      bothPaid == paid.white.wagerPaid /\ paid.black.wagerPaid
  IN IF bothPaid THEN [paid EXCEPT !.phase = "playing", !.startedAt = "set"] ELSE paid

\* submit_wager after verifyAndBroadcastTx returned
SubmitWagerEnd(slot, verified) ==
  /\ wagerInFlight[slot] > 0
  /\ wagerInFlight' = [wagerInFlight EXCEPT ![slot] = @ - 1]
  /\ IF verified /\ GameId \in games
     THEN /\ game' = confirmWagerPayment(game, slot)
          /\ IF game'.white.wagerPaid /\ game'.black.wagerPaid
             THEN startTurnTimer
             ELSE UNCHANGED << turnTimers, leakedTurn >>
     ELSE UNCHANGED << game, turnTimers, leakedTurn >>
  /\ UNCHANGED << sock, games, playerToGame, pauseTimers, leakedPause, disconnectTimers,
                  fundsInFlight, geSettling, removalTimers, lastResult,
                  lastRefund, lastSettle, endGameCalls, gameEndCalls, recordCalls,
                  pauseCalls, createOutcome, restVars >>

----------------------------------------------------------------------------
(* Moves: make_move / attemptMove *)

\* a ledger entry whose amounts are rounded down
capturePaymentFloor(g, slot, capturedPiece) ==
  LET amountSats == (g.baseSats * PIECE_CAPTURE_PERCENT[capturedPiece]) \div 100
      platformSats == (amountSats * PLATFORM_CUT_PERCENT) \div 100
  IN [fromSlot |-> opponentSlot(slot), toSlot |-> slot, piece |-> capturedPiece,
      amountSats |-> amountSats, capturerSats |-> amountSats - platformSats,
      platformSats |-> platformSats, paid |-> FALSE]

\* the capturePayments entry attemptMove records for a captured piece
capturePayment(g, slot, capturedPiece) ==
  LET amountSats == CeilDiv(g.baseSats * PIECE_CAPTURE_PERCENT[capturedPiece], 100)
      platformSats == CeilDiv(amountSats * PLATFORM_CUT_PERCENT, 100)
  IN [fromSlot |-> opponentSlot(slot), toSlot |-> slot, piece |-> capturedPiece,
      amountSats |-> amountSats, capturerSats |-> amountSats - platformSats,
      platformSats |-> platformSats, paid |-> FALSE]

\* a move applied with its capture recorded in the ledger but not added to the pot
applyMoveLedgerOnly(g, slot, captured) ==
  LET moved == [g EXCEPT ![slot].moveCount = @ + 1,
                         !.moveHistory = Append(@, g.turn),
                         !.turn = IF g.turn = "w" THEN "b" ELSE "w"]
  IN IF captured = NULL THEN moved
     ELSE [moved EXCEPT
             !.capturePayments = Append(@, capturePayment(g, slot, captured))]

\* the GameState after attemptMove applied a legal move, before the terminal checks
applyMove(g, slot, captured) ==
  LET moved == [g EXCEPT ![slot].moveCount = @ + 1,
                         !.moveHistory = Append(@, g.turn),
                         !.turn = IF g.turn = "w" THEN "b" ELSE "w"]
  IN IF captured = NULL THEN moved
     ELSE [moved EXCEPT
             !.capturePayments = Append(@, capturePayment(g, slot, captured)),
             !.pot = @ + capturePayment(g, slot, captured).amountSats]

\* the guards of attemptMove without the phase test
MoveAcceptedAnyPhase(s) ==
  /\ HasGameBySocket(s)
  /\ getSlot(game, s) # NULL
  /\ getSlot(game, s) = currentTurn(game)

\* attemptMove passes its guards for socket s
MoveAccepted(s) ==
  /\ HasGameBySocket(s)
  /\ game.phase = "playing"
  /\ getSlot(game, s) # NULL
  /\ getSlot(game, s) = currentTurn(game)

\* a legal move: applied, then checkmate / draw detection or the next turn clock
MakeMove(s, captured, terminal) ==
  /\ sock[s] = "open"
  /\ MoveAccepted(s)
  /\ Len(game.moveHistory) < MaxMoves
  /\ LET slot == getSlot(game, s)
         moved == applyMove(game, slot, captured)
     IN CASE terminal = "none" ->
               /\ game' = moved
               /\ startTurnTimer
               /\ UNCHANGED << pauseTimers, disconnectTimers, lastResult, endGameCalls >>
               /\ NoGameEnd
          [] terminal = "checkmate" ->
               /\ game' = endGame(moved, slot, "checkmate")
               /\ ClearAllTimers
               /\ lastResult' = endGameResult(moved, slot, "checkmate")
               /\ endGameCalls' = endGameCalls + 1
               /\ handleGameEnd(game', lastResult')
               /\ UNCHANGED leakedTurn
          [] OTHER ->
               /\ game' = endGameDraw(moved, terminal)
               /\ ClearAllTimers
               /\ lastResult' = endGameDrawResult(moved, terminal)
               /\ endGameCalls' = endGameCalls + 1
               /\ handleGameEnd(game', lastResult')
               /\ UNCHANGED leakedTurn
  /\ UNCHANGED << sock, games, playerToGame, leakedPause, wagerInFlight, fundsInFlight,
                  lastRefund, pauseCalls, createOutcome, restVars >>

\* a move attempt that attemptMove rejects (no game, wrong phase, not a seat,
\* not the side to move) or that the position engine rejects as illegal
MakeMoveRejected(s, legal) ==
  /\ sock[s] = "open"
  /\ ~MoveAccepted(s) \/ ~legal
  /\ UNCHANGED vars

----------------------------------------------------------------------------
(* Draw offer / accept, resign *)

\* offerDraw keeps no record of the offer: it only names the opponent's socket
OfferDraw(s) ==
  /\ sock[s] = "open"
  /\ HasGameBySocket(s)
  /\ game.phase = "playing"
  /\ getSlot(game, s) # NULL
  /\ UNCHANGED vars

\* offer_draw as OfferDraw, with the offering seat noted by an observer
OfferDrawObserved(s) ==
  /\ sock[s] = "open"
  /\ HasGameBySocket(s)
  /\ game.phase = "playing"
  /\ getSlot(game, s) # NULL
  /\ drawOfferSeen' = getSlot(game, s)
  /\ UNCHANGED << sock, games, playerToGame, game, turnTimers, pauseTimers, leakedPause,
                  disconnectTimers, wagerInFlight, fundsInFlight, geSettling,
                  removalTimers, lastResult, lastRefund, lastSettle, endGameCalls,
                  gameEndCalls, recordCalls, pauseCalls, createOutcome, leakedTurn,
                  regVars, lobbyVars >>

AcceptDraw(s) ==
  /\ sock[s] = "open"
  /\ HasGameBySocket(s)
  /\ game.phase = "playing"
  /\ game' = endGameDraw(game, "draw_agreement")
  /\ ClearAllTimers
  /\ lastResult' = endGameDrawResult(game, "draw_agreement")
  /\ endGameCalls' = endGameCalls + 1
  /\ handleGameEnd(game', lastResult')
  /\ UNCHANGED << sock, games, playerToGame, leakedPause, wagerInFlight, fundsInFlight,
                  lastRefund, pauseCalls, createOutcome, leakedTurn, restVars >>

\* a resign that skips the gameover test
ResignAnyPhase(s) ==
  /\ sock[s] = "open"
  /\ HasGameBySocket(s)
  /\ getSlot(game, s) # NULL
  /\ LET winner == opponentSlot(getSlot(game, s)) IN
       /\ game' = endGame(game, winner, "resignation")
       /\ lastResult' = endGameResult(game, winner, "resignation")
  /\ ClearAllTimers
  /\ endGameCalls' = endGameCalls + 1
  /\ handleGameEnd(game', lastResult')
  /\ UNCHANGED << sock, games, playerToGame, leakedPause, wagerInFlight, fundsInFlight,
                  lastRefund, pauseCalls, createOutcome, leakedTurn, restVars >>

Resign(s) ==
  /\ sock[s] = "open"
  /\ HasGameBySocket(s)
  /\ game.phase # "gameover"
  /\ getSlot(game, s) # NULL
  /\ LET winner == opponentSlot(getSlot(game, s)) IN
       /\ game' = endGame(game, winner, "resignation")
       /\ lastResult' = endGameResult(game, winner, "resignation")
  /\ ClearAllTimers
  /\ endGameCalls' = endGameCalls + 1
  /\ handleGameEnd(game', lastResult')
  /\ UNCHANGED << sock, games, playerToGame, leakedPause, wagerInFlight, fundsInFlight,
                  lastRefund, pauseCalls, createOutcome, leakedTurn, restVars >>

----------------------------------------------------------------------------
(* Pause for funds / funds_added *)

\* pauseForFunds(game, forSlot, ...): called for a registered game in play,
\* at most `limit` times
PauseForFunds(forSlot, limit) ==
  /\ GameId \in games
  /\ game.phase = "playing"
  /\ pauseCalls < limit
  /\ pauseCalls' = pauseCalls + 1
  /\ game' = [game EXCEPT !.phase = "paused", !.pausedFor = forSlot,
                          !.pausedAt = "set", !.pauseReason = "set"]
  /\ turnTimers' = Cleared
  \* pauseTimers.set without a clearPauseTimer: a pending earlier timeout stays pending
  /\ leakedPause' = IF pauseTimers.st = "pending"
                    THEN [leakedPause EXCEPT ![pauseTimers.forSlot] = @ + 1]
                    ELSE leakedPause
  /\ pauseTimers' = [st |-> "pending", forSlot |-> forSlot]
  /\ UNCHANGED << sock, games, playerToGame, disconnectTimers, wagerInFlight,
                  fundsInFlight, geSettling, removalTimers, lastResult,
                  lastRefund, lastSettle, endGameCalls, gameEndCalls, recordCalls,
                  createOutcome, leakedTurn, restVars >>

\* funds_added up to its await of fetchBalance
FundsAddedBegin(s) ==
  /\ sock[s] = "open"
  /\ HasGameBySocket(s)
  /\ game.phase = "paused"
  /\ getSlot(game, s) # NULL
  /\ game.pausedFor = getSlot(game, s)
  /\ fundsInFlight["white"] + fundsInFlight["black"] < MaxFundsInFlight
  /\ fundsInFlight' = [fundsInFlight EXCEPT ![getSlot(game, s)] = @ + 1]
  /\ UNCHANGED << sock, games, playerToGame, game, turnTimers, pauseTimers, leakedPause,
                  disconnectTimers, wagerInFlight, geSettling, removalTimers,
                  lastResult, lastRefund, lastSettle, endGameCalls, gameEndCalls,
                  recordCalls, pauseCalls, createOutcome, leakedTurn, restVars >>

\* the GameState after funds_added found the balance sufficient
resume(g) ==
  [g EXCEPT !.phase = "playing", !.pausedFor = NULL, !.pausedAt = NULL,
            !.pauseReason = NULL]

\* funds_added after fetchBalance returned
FundsAddedEnd(slot, sufficient) ==
  /\ fundsInFlight[slot] > 0
  /\ fundsInFlight' = [fundsInFlight EXCEPT ![slot] = @ - 1]
  /\ game' = IF sufficient THEN resume(game) ELSE game
  /\ UNCHANGED << sock, games, playerToGame, turnTimers, pauseTimers, leakedPause,
                  disconnectTimers, wagerInFlight, geSettling, removalTimers,
                  lastResult, lastRefund, lastSettle, endGameCalls, gameEndCalls,
                  recordCalls, pauseCalls, createOutcome, leakedTurn, restVars >>

----------------------------------------------------------------------------
(* Disconnect / reconnect *)

\* handleDisconnect finds a seat of a game that is not over for socket s
DisconnectSeated(s) ==
  /\ HasGameBySocket(s)
  /\ game.phase # "gameover"
  /\ getSlot(game, s) # NULL

\* a disconnect result that reports the deposits held as its pot
disconnectResultWithPot ==
  [winner |-> NULL, loser |-> NULL, reason |-> "disconnect", pot |-> game.pot,
   winnerPayout |-> 0, loserPayout |-> 0, platformCut |-> 0]

\* the GameOverResult of a disconnect during awaiting_wagers
disconnectResult ==
  [winner |-> NULL, loser |-> NULL, reason |-> "disconnect", pot |-> 0,
   winnerPayout |-> 0, loserPayout |-> 0, platformCut |-> 0]

\* socket.on('disconnect'): handleDisconnect; the handler itself only revokes sessions
Disconnect(s) ==
  /\ sock[s] = "open"
  /\ sock' = [sock EXCEPT ![s] = "closed"]
  /\ IF ~DisconnectSeated(s)
     THEN UNCHANGED << game, turnTimers, disconnectTimers, lastResult, lastRefund >>
     ELSE LET slot == getSlot(game, s)
              opponent == opponentSlot(slot)
              gone == [game EXCEPT ![slot].connected = FALSE,
                                   ![slot].disconnectedAt = "set"]
          IN /\ turnTimers' = Cleared
             /\ IF game.phase = "awaiting_wagers"
                THEN /\ game' = [gone EXCEPT !.phase = "gameover", !.endedAt = "set",
                                             !.endReason = "disconnect"]
                     /\ disconnectTimers' = [x \in Slots |-> Cleared]
                     /\ lastRefund' = IF game[opponent].wagerPaid
                                      THEN [address |-> game[opponent].address,
                                            amount |-> game.depositSats]
                                      ELSE NoRefund
                     /\ lastResult' = disconnectResult
                ELSE /\ game' = gone
                     /\ disconnectTimers' = [disconnectTimers EXCEPT ![slot] = "pending"]
                     /\ UNCHANGED << lastResult, lastRefund >>
  /\ UNCHANGED << games, playerToGame, pauseTimers, leakedPause, wagerInFlight,
                  fundsInFlight, geSettling, removalTimers, lastSettle,
                  endGameCalls, gameEndCalls, recordCalls, pauseCalls, createOutcome, leakedTurn, restVars >>

\* a seat lookup that falls back to white when no address matches
slotOfAddressDefault(g, address) ==
  IF g.black.address = address THEN "black" ELSE "white"

\* the seat handleReconnect selects for an address
slotOfAddress(g, address) ==
  IF g.white.address = address THEN "white"
  ELSE IF g.black.address = address THEN "black"
  ELSE NULL

\* a reconnect that marks the seat connected but keeps its old binding
ReconnectGameNoRebind(s, address) ==
  /\ sock[s] = "open"
  /\ IF GameId \notin games \/ game.phase = "gameover" \/ slotOfAddress(game, address) = NULL
     THEN UNCHANGED << game, playerToGame, turnTimers, leakedTurn, disconnectTimers >>
     ELSE LET slot == slotOfAddress(game, address) IN
          /\ disconnectTimers' = [disconnectTimers EXCEPT ![slot] = Cleared]
          /\ game' = [game EXCEPT ![slot].connected = TRUE,
                                  ![slot].disconnectedAt = NULL]
          /\ playerToGame' = playerToGame \cup {s}
          /\ IF game.phase = "playing"
             THEN startTurnTimer
             ELSE UNCHANGED << turnTimers, leakedTurn >>
  /\ UNCHANGED << sock, games, pauseTimers, leakedPause, wagerInFlight, fundsInFlight,
                  geSettling, removalTimers, lastResult, lastRefund, lastSettle,
                  endGameCalls, gameEndCalls, recordCalls, pauseCalls, createOutcome,
                  restVars >>

\* socket.on('reconnect_game') / handleReconnect(socketId, gameId, address)
ReconnectGame(s, address) ==
  /\ sock[s] = "open"
  /\ IF GameId \notin games \/ game.phase = "gameover" \/ slotOfAddress(game, address) = NULL
     THEN UNCHANGED << game, playerToGame, turnTimers, leakedTurn, disconnectTimers >>
     ELSE LET slot == slotOfAddress(game, address) IN
          /\ disconnectTimers' = [disconnectTimers EXCEPT ![slot] = Cleared]
          /\ game' = [game EXCEPT ![slot].connected = TRUE,
                                  ![slot].disconnectedAt = NULL,
                                  ![slot].socketId = s]
          /\ playerToGame' = playerToGame \cup {s}
          /\ IF game.phase = "playing"
             THEN startTurnTimer
             ELSE UNCHANGED << turnTimers, leakedTurn >>
  /\ UNCHANGED << sock, games, pauseTimers, leakedPause, wagerInFlight, fundsInFlight,
                  geSettling, removalTimers, lastResult, lastRefund, lastSettle,
                  endGameCalls, gameEndCalls, recordCalls, pauseCalls, createOutcome,
                  restVars >>

----------------------------------------------------------------------------
(* Timer expiry *)

\* A timeout callback of the manager ended the game, then the socket layer's
\* onTurnTimeout / onPauseTimeout ran: it looks the game up, calls endGame again
\* and starts handleGameEnd.
TimeoutEnds(winner, reason) ==
  /\ game' = endGame(game, winner, reason)
  /\ lastResult' = endGameResult(game, winner, reason)
  /\ turnTimers' = Cleared
  /\ pauseTimers' = NoPauseTimer
  /\ disconnectTimers' = [x \in Slots |-> Cleared]
  /\ IF GameId \in games
     THEN /\ endGameCalls' = endGameCalls + 2
          /\ handleGameEnd(game', lastResult')
     ELSE /\ endGameCalls' = endGameCalls + 1
          /\ NoGameEnd

\* a turn clock set by startTurnTimer fires: the one registered in turnTimers, or
\* one that is pending without being registered there
TurnTimerFire(registered) ==
  /\ IF registered THEN turnTimers = "pending" ELSE leakedTurn > 0
  /\ leakedTurn' = IF registered THEN leakedTurn ELSE leakedTurn - 1
  /\ IF game.phase # "playing"
     THEN /\ turnTimers' = (IF registered THEN Cleared ELSE turnTimers)
          /\ UNCHANGED << game, pauseTimers, disconnectTimers, lastResult, endGameCalls >>
          /\ NoGameEnd
     ELSE TimeoutEnds(opponentSlot(currentTurn(game)), "timeout")
  /\ UNCHANGED << sock, games, playerToGame, leakedPause, wagerInFlight, fundsInFlight,
                  lastRefund, pauseCalls, createOutcome, restVars >>

\* a pause clock that ends the game whatever the phase it fires in
PauseTimerFireUnguarded(forSlot, registered) ==
  /\ IF registered
     THEN pauseTimers = [st |-> "pending", forSlot |-> forSlot]
     ELSE leakedPause[forSlot] > 0
  /\ leakedPause' = IF registered THEN leakedPause
                    ELSE [leakedPause EXCEPT ![forSlot] = @ - 1]
  /\ TimeoutEnds(opponentSlot(forSlot), "insufficient_funds")
  /\ UNCHANGED << sock, games, playerToGame, wagerInFlight, fundsInFlight,
                  lastRefund, pauseCalls, createOutcome, leakedTurn, restVars >>

\* a pause clock set by pauseForFunds(game, forSlot) fires: the one registered in
\* pauseTimers, or one that a later pauseForFunds replaced there
PauseTimerFire(forSlot, registered) ==
  /\ IF registered
     THEN pauseTimers = [st |-> "pending", forSlot |-> forSlot]
     ELSE leakedPause[forSlot] > 0
  /\ LET remaining == IF registered THEN leakedPause
                      ELSE [leakedPause EXCEPT ![forSlot] = @ - 1]
     IN IF game.phase # "paused"
        THEN /\ pauseTimers' = (IF registered THEN NoPauseTimer ELSE pauseTimers)
             /\ leakedPause' = remaining
             /\ UNCHANGED << game, turnTimers, disconnectTimers, lastResult,
                             endGameCalls >>
             /\ NoGameEnd
        ELSE /\ leakedPause' = remaining
             /\ TimeoutEnds(opponentSlot(forSlot), "insufficient_funds")
  /\ UNCHANGED << sock, games, playerToGame, wagerInFlight, fundsInFlight,
                  lastRefund, pauseCalls, createOutcome, leakedTurn, restVars >>

\* the reconnect-grace clock of a seat fires; onDisconnectTimeout then finds the
\* game already in gameover and returns
DisconnectTimerFire(slot) ==
  /\ disconnectTimers[slot] = "pending"
  /\ IF GameId \in games /\ game.phase # "gameover" /\ ~game[slot].connected
     THEN /\ game' = endGame(game, opponentSlot(slot), "disconnect")
          /\ lastResult' = endGameResult(game, opponentSlot(slot), "disconnect")
          /\ ClearAllTimers
          /\ endGameCalls' = endGameCalls + 1
     ELSE /\ disconnectTimers' = [disconnectTimers EXCEPT ![slot] = Cleared]
          /\ UNCHANGED << game, turnTimers, pauseTimers, lastResult, endGameCalls >>
  /\ NoGameEnd
  /\ UNCHANGED << sock, games, playerToGame, leakedPause, wagerInFlight, fundsInFlight,
                  lastRefund, pauseCalls, createOutcome, leakedTurn, restVars >>

----------------------------------------------------------------------------
(* LobbyManager: players and addressToSocket *)

LobbySockets == 1..NumLobbySockets
LobbyAddresses == 1..NumLobbyAddresses

\* the registries after leave(socketId)
lobbyLeave(players, a2s, socketId) ==
  [players |-> [players EXCEPT ![socketId] = 0],
   a2s |-> IF players[socketId] # 0
           THEN [a2s EXCEPT ![players[socketId]] = 0]
           ELSE a2s]

\* join_lobby: lobbyManager.join(socket.id, address, ...)
LobbyJoin(socketId, address) ==
  /\ lobbySock[socketId] = "open"
  /\ LET existing == addressToSocket[address]
         left == IF existing # 0 /\ existing # socketId
                 THEN lobbyLeave(lobbyPlayers, addressToSocket, existing)
                 ELSE [players |-> lobbyPlayers, a2s |-> addressToSocket]
     IN /\ lobbyPlayers' = [left.players EXCEPT ![socketId] = address]
        /\ addressToSocket' = [left.a2s EXCEPT ![address] = socketId]
  /\ UNCHANGED << lobbySock, gameVars, regVars >>

\* disconnect: lobbyManager.leave(socket.id)
LobbyLeave(socketId) ==
  /\ lobbySock[socketId] = "open"
  /\ lobbySock' = [lobbySock EXCEPT ![socketId] = "closed"]
  /\ lobbyPlayers' = lobbyLeave(lobbyPlayers, addressToSocket, socketId).players
  /\ addressToSocket' = lobbyLeave(lobbyPlayers, addressToSocket, socketId).a2s
  /\ UNCHANGED << gameVars, regVars >>

----------------------------------------------------------------------------
(* The registry across games: games, playerToGame and the seats' bindings.
   A game is followed only as far as its phase and its two seats. Every
   connection belongs to a client that plays with one address and presents it
   in find_match and in reconnect_game; one client has two connections open. *)

RegSockets == 1..NumRegSockets
RegGameIds == 1..MaxGames
\* the address of the client behind a connection: connections 1 and 3 are the
\* same client
RegAddressOf(s) == IF s = 3 THEN 1 ELSE s

NoRegSeat == [socketId |-> 0, address |-> 0, connected |-> FALSE]
\* games.get(id) === undefined
NoRegGame == [phase |-> NULL, white |-> NoRegSeat, black |-> NoRegSeat]

\* connection s is the bound connection of a seat of game id, and the game is not over
RegSeated(id, s) ==
  /\ regGames[id].phase \notin {NULL, "gameover"}
  /\ s \in {regGames[id].white.socketId, regGames[id].black.socketId}

RegSlot(g, s) ==
  IF g.white.socketId = s THEN "white"
  ELSE IF g.black.socketId = s THEN "black"
  ELSE NULL

RegSlotOfAddress(g, address) ==
  IF g.white.address = address THEN "white"
  ELSE IF g.black.address = address THEN "black"
  ELSE NULL

\* createGame for two matched connections of different clients, neither of them
\* seated in a game that is still running; the game id is fresh
RegCreateGame(p1Sid, p2Sid) ==
  /\ regCreated < MaxGames
  /\ RegAddressOf(p1Sid) # RegAddressOf(p2Sid)
  /\ regSock[p1Sid] = "open" /\ regSock[p2Sid] = "open"
  /\ \A id \in RegGameIds : ~RegSeated(id, p1Sid) /\ ~RegSeated(id, p2Sid)
  /\ LET gameId == regCreated + 1 IN
       /\ regGames' = [regGames EXCEPT ![gameId] =
             [phase |-> "awaiting_wagers",
              white |-> [socketId |-> p1Sid, address |-> RegAddressOf(p1Sid),
                         connected |-> TRUE],
              black |-> [socketId |-> p2Sid, address |-> RegAddressOf(p2Sid),
                         connected |-> TRUE]]]
       /\ regPlayerToGame' = [regPlayerToGame EXCEPT ![p1Sid] = gameId, ![p2Sid] = gameId]
  /\ regCreated' = regCreated + 1
  /\ UNCHANGED << regSock, gameVars, lobbyVars >>

\* both deposits of a game are confirmed
RegConfirmWagers(id) ==
  /\ regGames[id].phase = "awaiting_wagers"
  /\ regGames' = [regGames EXCEPT ![id].phase = "playing"]
  /\ UNCHANGED << regSock, regPlayerToGame, regCreated, gameVars, lobbyVars >>

\* endGame / endGameDraw of a game, whatever ended it
RegEndGame(id) ==
  /\ regGames[id].phase \in {"awaiting_wagers", "playing"}
  /\ regGames' = [regGames EXCEPT ![id].phase = "gameover"]
  /\ UNCHANGED << regSock, regPlayerToGame, regCreated, gameVars, lobbyVars >>

\* handleReconnect(socketId, gameId, address)
RegHandleReconnect(s, id, address) ==
  /\ regSock[s] = "open"
  /\ LET g == regGames[id]
         slot == RegSlotOfAddress(g, address)
     IN IF g.phase \in {NULL, "gameover"} \/ slot = NULL
        THEN UNCHANGED << regGames, regPlayerToGame >>
        ELSE /\ regGames' = [regGames EXCEPT ![id][slot].connected = TRUE,
                                             ![id][slot].socketId = s]
             /\ regPlayerToGame' = [regPlayerToGame EXCEPT ![s] = id]
  /\ UNCHANGED << regSock, regCreated, gameVars, lobbyVars >>

\* handleDisconnect(socketId) when the connection closes
RegHandleDisconnect(s) ==
  /\ regSock[s] = "open"
  /\ regSock' = [regSock EXCEPT ![s] = "closed"]
  /\ LET id == regPlayerToGame[s] IN
       IF id = 0 THEN UNCHANGED regGames
       ELSE IF regGames[id].phase \in {NULL, "gameover"} \/ RegSlot(regGames[id], s) = NULL
       THEN UNCHANGED regGames
       ELSE LET slot == RegSlot(regGames[id], s) IN
            regGames' = [regGames EXCEPT
                           ![id][slot].connected = FALSE,
                           ![id].phase = IF @ = "awaiting_wagers" THEN "gameover" ELSE @]
  /\ UNCHANGED << regPlayerToGame, regCreated, gameVars, lobbyVars >>

\* removeGame(id), called some time after the game ended
RegRemoveGame(id) ==
  /\ regGames[id].phase = "gameover"
  /\ regPlayerToGame' =
       [s \in RegSockets |->
          IF /\ s \in {regGames[id].white.socketId, regGames[id].black.socketId}
             /\ regPlayerToGame[s] = id
          THEN 0 ELSE regPlayerToGame[s]]
  /\ regGames' = [regGames EXCEPT ![id] = NoRegGame]
  /\ UNCHANGED << regSock, regCreated, gameVars, lobbyVars >>

----------------------------------------------------------------------------
(* Specification *)

Init ==
  /\ sock = [s \in Sockets |-> IF s \in {P1Sid, P2Sid} THEN "open" ELSE "unused"]
  /\ games = {}
  /\ playerToGame = {}
  /\ game = NoGame
  /\ turnTimers = "none"
  /\ pauseTimers = NoPauseTimer
  /\ leakedPause = [s \in Slots |-> 0]
  /\ disconnectTimers = [s \in Slots |-> "none"]
  /\ wagerInFlight = [s \in Slots |-> 0]
  /\ fundsInFlight = [s \in Slots |-> 0]
  /\ geSettling = 0
  /\ removalTimers = 0
  /\ lastResult = NoResult
  /\ lastRefund = NoRefund
  /\ lastSettle = NoSettle
  /\ endGameCalls = 0
  /\ gameEndCalls = 0
  /\ recordCalls = 0
  /\ pauseCalls = 0
  /\ createOutcome = NULL
  /\ regSock = [s \in RegSockets |-> "open"]
  /\ regGames = [id \in RegGameIds |-> NoRegGame]
  /\ regPlayerToGame = [s \in RegSockets |-> 0]
  /\ regCreated = 0
  /\ leakedTurn = 0
  /\ drawOfferSeen = NULL
  /\ lobbySock = [s \in LobbySockets |-> "open"]
  /\ lobbyPlayers = [s \in LobbySockets |-> 0]
  /\ addressToSocket = [a \in LobbyAddresses |-> 0]

Next ==
  \/ \E s \in Sockets : Connection(s)
  \/ \E t \in TierInputs, p \in PriceInputs, w \in ColorInputs : CreateGame(t, p, w)
  \/ \E slot \in Slots : RequestWagerPayment(slot)
  \/ \E s \in Sockets : SubmitWagerBegin(s, MaxWagerInFlight)
  \/ \E slot \in Slots, v \in BOOLEAN : SubmitWagerEnd(slot, v)
  \/ \E s \in Sockets, c \in CapturedInputs \cup {NULL}, t \in TerminalInputs : MakeMove(s, c, t)
  \/ \E s \in Sockets, l \in BOOLEAN : MakeMoveRejected(s, l)
  \/ \E s \in Sockets : OfferDraw(s)
  \/ \E s \in Sockets : AcceptDraw(s)
  \/ \E s \in Sockets : Resign(s)
  \/ \E slot \in Slots : PauseForFunds(slot, MaxPauses)
  \/ \E s \in Sockets : FundsAddedBegin(s)
  \/ \E slot \in Slots, ok \in BOOLEAN : FundsAddedEnd(slot, ok)
  \/ \E s \in Sockets : Disconnect(s)
  \/ \E s \in Sockets : \E a \in ClientAddresses(s) : ReconnectGame(s, a)
  \/ \E r \in BOOLEAN : TurnTimerFire(r)
  \/ \E slot \in Slots, r \in BOOLEAN : PauseTimerFire(slot, r)
  \/ \E slot \in Slots : DisconnectTimerFire(slot)
  \/ GameEndSettled
  \/ RemoveGame

Spec == Init /\ [][Next]_vars

\* The registry scenario: several games are created, ended and removed while
\* connections close and clients reconnect.
NextRegistry ==
  \/ \E p1 \in RegSockets, p2 \in RegSockets : RegCreateGame(p1, p2)
  \/ \E id \in RegGameIds : RegConfirmWagers(id)
  \/ \E id \in RegGameIds : RegEndGame(id)
  \/ \E s \in RegSockets, id \in RegGameIds : RegHandleReconnect(s, id, RegAddressOf(s))
  \/ \E s \in RegSockets : RegHandleDisconnect(s)
  \/ \E id \in RegGameIds : RegRemoveGame(id)

SpecRegistry == Init /\ [][NextRegistry]_vars

\* The draw scenario: offers and acceptances of a draw, with reconnects.
DrawTierInputs == {100}
DrawPriceInputs == {30}

NextDraw ==
  \/ \E s \in Sockets : Connection(s)
  \/ \E t \in DrawTierInputs, p \in DrawPriceInputs, w \in ColorInputs : CreateGame(t, p, w)
  \/ \E s \in Sockets : SubmitWagerBegin(s, MaxWagerInFlight)
  \/ \E slot \in Slots, v \in BOOLEAN : SubmitWagerEnd(slot, v)
  \/ \E s \in Sockets : MakeMove(s, NULL, "none")
  \/ \E s \in Sockets : OfferDrawObserved(s)
  \/ \E s \in Sockets : AcceptDraw(s)
  \/ \E s \in Sockets : \E a \in ClientAddresses(s) : ReconnectGame(s, a)
  \/ GameEndSettled
  \/ RemoveGame

SpecDraw == Init /\ [][NextDraw]_vars

\* The lobby scenario: clients join the lobby, some more than once, and disconnect.
NextLobby ==
  \/ \E s \in LobbySockets, a \in LobbyAddresses : LobbyJoin(s, a)
  \/ \E s \in LobbySockets : LobbyLeave(s)

SpecLobby == Init /\ [][NextLobby]_vars

\* The capture scenario: games at two prices, moves capturing every kind of piece.
CapturePriceInputs == {1000, 50, 30}
CaptureTierInputs == {100}
CaptureKinds == {"p", "n", "b", "r", "q"}

NextCapture ==
  \/ \E t \in CaptureTierInputs, p \in CapturePriceInputs, w \in ColorInputs : CreateGame(t, p, w)
  \/ \E s \in Sockets : SubmitWagerBegin(s, MaxWagerInFlight)
  \/ \E slot \in Slots, v \in BOOLEAN : SubmitWagerEnd(slot, v)
  \/ \E s \in Sockets, c \in CaptureKinds \cup {NULL}, t \in {"none", "checkmate"} :
       MakeMove(s, c, t)
  \/ GameEndSettled
  \/ RemoveGame

SpecCapture == Init /\ [][NextCapture]_vars

\* The funds-pause scenario: both players stay connected, and the game may be
\* paused for funds more than once.
NextFunds ==
  \/ \E t \in TierInputs, p \in PriceInputs, w \in ColorInputs : CreateGame(t, p, w)
  \/ \E s \in Sockets : SubmitWagerBegin(s, MaxWagerInFlight)
  \/ \E slot \in Slots, v \in BOOLEAN : SubmitWagerEnd(slot, v)
  \/ \E s \in Sockets, c \in CapturedInputs \cup {NULL}, t \in TerminalInputs : MakeMove(s, c, t)
  \/ \E s \in Sockets : Resign(s)
  \/ \E slot \in Slots : PauseForFunds(slot, MaxPausesFunds)
  \/ \E s \in Sockets : FundsAddedBegin(s)
  \/ \E slot \in Slots, ok \in BOOLEAN : FundsAddedEnd(slot, ok)
  \/ \E r \in BOOLEAN : TurnTimerFire(r)
  \/ \E slot \in Slots, r \in BOOLEAN : PauseTimerFire(slot, r)
  \/ GameEndSettled
  \/ RemoveGame

SpecFunds == Init /\ [][NextFunds]_vars

\* The deposit scenario: both players stay connected, and a client may send
\* submit_wager again while its earlier request is still being verified.
NextWager ==
  \/ \E t \in TierInputs, p \in PriceInputs, w \in ColorInputs : CreateGame(t, p, w)
  \/ \E s \in Sockets : SubmitWagerBegin(s, MaxWagerOverlap)
  \/ \E slot \in Slots, v \in BOOLEAN : SubmitWagerEnd(slot, v)
  \/ \E s \in Sockets, c \in CapturedInputs \cup {NULL}, t \in TerminalInputs : MakeMove(s, c, t)
  \/ \E slot \in Slots : PauseForFunds(slot, MaxPauses)
  \/ \E r \in BOOLEAN : TurnTimerFire(r)
  \/ \E slot \in Slots, r \in BOOLEAN : PauseTimerFire(slot, r)
  \/ GameEndSettled
  \/ RemoveGame

SpecWager == Init /\ [][NextWager]_vars

----------------------------------------------------------------------------
(* Properties *)

AllSeatsSame(g, h) ==
  \A slot \in Slots : /\ g[slot].connected = h[slot].connected
                      /\ g[slot].moveCount = h[slot].moveCount

\* C1: phase=gameover is terminal: once the game is in gameover no later event
\* changes its phase, pot, capture ledger or a seat's connected / moveCount.
C1_GameoverTerminal ==
  [][game.phase = "gameover" =>
       /\ game'.phase = "gameover"
       /\ game'.pot = game.pot
       /\ game'.capturePayments = game.capturePayments
       /\ AllSeatsSame(game, game')]_vars

\* C2: no double settlement: the caller's game-end handling (handleGameEnd) runs
\* at most once for the game, across all interleavings.
C2_NoDoubleSettlement == gameEndCalls <= 1

\* C3: the settlement computation (endGame / endGameDraw) is invoked exactly once
\* per game: never twice, and once whenever the game was ended by a termination
\* path that goes through it.
C3_SettlementComputedOnce ==
  /\ endGameCalls <= 1
  /\ (game.phase = "gameover" /\ game.endReason # "disconnect") => endGameCalls = 1

\* C4: every transition into gameover is followed by the game-end handling.  Each
\* handler that ends a game starts handleGameEnd before it yields, so in every
\* state a game that has ended has had handleGameEnd started for it.
C4_GameEndHandled == game.endedAt # NULL => gameEndCalls >= 1

\* C5: pot is non-decreasing on every step until the first transition into
\* gameover, and is never mutated after that transition.
C5_PotMonotoneThenFrozen ==
  [][/\ game'.pot >= game.pot
     /\ game.endedAt # NULL => game'.pot = game.pot]_vars

\* a step on which endGame / endGameDraw computed a result
Settled == endGameCalls' # endGameCalls

BothPaid(g) == g.white.wagerPaid /\ g.black.wagerPaid

\* C6: for every decisive ending of a game holding both deposits,
\* winnerPayout + platformCut equals the pot at settlement, whatever the ledger.
C6_DecisivePayoutEqualsPot ==
  [][(Settled /\ lastResult'.winner # NULL /\ BothPaid(game')) =>
       lastResult'.winnerPayout + lastResult'.platformCut = game'.pot]_vars

\* ceil(n * 3 / 100), by floor division of the negated numerator
PlatformCutOn(n) == -((-(n * 3)) \div 100)

\* the sum of field f over the ledger entries whose capturer is in `capturers`
LedgerSum(cps, capturers, f) ==
  LET idx == {i \in 1..Len(cps) : cps[i].toSlot \in capturers}
      S[I \in SUBSET idx] ==
        IF I = {} THEN 0
        ELSE LET i == CHOOSE x \in I : TRUE IN cps[i][f] + S[I \ {i}]
  IN S[idx]

\* C7: for every decisive ending, winnerPayout = deposit + (deposit - ceil(3% of
\* deposit)) + the capturer shares of the winner's captures, loserPayout = 0 and
\* platformCut = ceil(3% of deposit) + the platform shares of the whole ledger.
C7_DecisivePayoutFormula ==
  [][(Settled /\ lastResult'.winner # NULL) =>
       LET d == game'.depositSats
           w == lastResult'.winner
       IN /\ lastResult'.winnerPayout =
               d + (d - PlatformCutOn(d))
                 + LedgerSum(game'.capturePayments, {w}, "capturerSats")
          /\ lastResult'.loserPayout = 0
          /\ lastResult'.platformCut =
               PlatformCutOn(d) + LedgerSum(game'.capturePayments, Slots, "platformSats")
          /\ lastResult'.loser = opponentSlot(w)]_vars

\* C7 witness: a decisive result over a ledger holding a capture by the winner and
\* a capture by the loser
C7_Witness ==
  /\ game.phase = "gameover" /\ endGameCalls = 1
  /\ lastResult.winner \in Slots
  /\ \E i, j \in 1..Len(game.capturePayments) :
       /\ game.capturePayments[i].toSlot = lastResult.winner
       /\ game.capturePayments[j].toSlot = lastResult.loser

DrawReasons == {"stalemate", "threefold_repetition", "insufficient_material",
                "fifty_move_rule", "draw_agreement"}

\* C8: for every draw ending both seats receive the same payout, the deposit minus
\* ceil(3% of the deposit), whatever the ledger holds, and
\* 2 * share + platformCut = 2 * deposit.
C8_DrawPayout ==
  [][(Settled /\ lastResult'.winner = NULL) =>
       LET d == game'.depositSats IN
       /\ lastResult'.reason \in DrawReasons
       /\ lastResult'.winnerPayout = d - PlatformCutOn(d)
       /\ lastResult'.loserPayout = lastResult'.winnerPayout
       /\ 2 * lastResult'.winnerPayout + lastResult'.platformCut = 2 * d]_vars

\* C8 witness: a draw settled over a non-empty ledger, with a deposit on which the
\* 3% cut is not a whole number
C8_Witness ==
  /\ game.phase = "gameover" /\ endGameCalls = 1
  /\ lastResult.reason \in DrawReasons
  /\ Len(game.capturePayments) > 0
  /\ (game.depositSats * 3) % 100 # 0

TurnClockLive == turnTimers = "pending"

PauseClockLive ==
  pauseTimers.st = "pending" \/ \E slot \in Slots : leakedPause[slot] > 0

GraceClockLive == \E slot \in Slots : disconnectTimers[slot] = "pending"

\* C9: at most one timer family is live: the turn clock and the pause clock are
\* never both pending, and a grace clock is never pending together with either.
C9_OneTimerFamilyLive ==
  /\ ~(TurnClockLive /\ PauseClockLive)
  /\ ~(GraceClockLive /\ (TurnClockLive \/ PauseClockLive))

\* C10: at most one active timer per key: no timeout is pending that is not the
\* one registered under its key.
C10_OneTimerPerKey == \A slot \in Slots : leakedPause[slot] = 0

----------------------------------------------------------------------------
(* Timer teardown and stale timers *)

\* the game has been created and is no longer registered in games
Removed == game.phase # NULL /\ GameId \notin games

NoClockPending ==
  /\ turnTimers # "pending"
  /\ pauseTimers.st # "pending"
  /\ \A slot \in Slots : leakedPause[slot] = 0 /\ disconnectTimers[slot] # "pending"

\* C11: all timers of a game are canceled on entering gameover and on removeGame:
\* while the game is in gameover or has been removed, no turn clock, pause clock
\* or disconnect-grace clock of it is pending.
C11_TimersCanceledAtEnd == (game.phase = "gameover" \/ Removed) => NoClockPending

\* a step that leaves the game, the computed result and the game-end handling alone
NoEffect ==
  /\ game' = game
  /\ lastResult' = lastResult
  /\ endGameCalls' = endGameCalls
  /\ gameEndCalls' = gameEndCalls
  /\ recordCalls' = recordCalls
  /\ games' = games

\* C12: stale timers are guarded no-ops: a turn clock firing when phase # playing,
\* a pause clock firing when phase # paused and a grace clock firing when the game
\* is gameover, removed or the seat is connected again change no game state and
\* start no timeout handling.
C12_StaleTimersNoOp ==
  [][/\ ((\E r \in BOOLEAN : TurnTimerFire(r)) /\ game.phase # "playing") => NoEffect
     /\ \A slot \in Slots :
          /\ ((\E r \in BOOLEAN : PauseTimerFire(slot, r)) /\ game.phase # "paused")
               => NoEffect
          /\ (DisconnectTimerFire(slot)
               /\ (game.phase = "gameover" \/ Removed \/ game[slot].connected))
               => NoEffect]_vars

\* C12 witness: a pause clock outlived its pause (the game was resumed and is in
\* play, no game has ended) and has fired
C12_Witness ==
  /\ pauseCalls > 0
  /\ game.phase = "playing"
  /\ pauseTimers.st = "none"
  /\ \A slot \in Slots : leakedPause[slot] = 0
  /\ endGameCalls = 0

----------------------------------------------------------------------------
(* Deposits *)

\* a submit_wager handler of the seat got its verification result on this step
VerificationReturned(slot) == wagerInFlight'[slot] < wagerInFlight[slot]

\* C13: both seats confirmed is necessary and sufficient for the transition
\* awaiting_wagers -> playing, which happens exactly once: the game is never in
\* playing with an unconfirmed seat, it enters playing at the confirmation that
\* makes both seats confirmed, and a deposit confirmation arriving in any other
\* phase neither enters playing nor starts the turn clock.
C13_PlayingIffBothConfirmedOnce ==
  [][/\ game'.phase = "playing" => BothPaid(game')
     /\ (game.phase = "awaiting_wagers" /\ ~BothPaid(game) /\ BothPaid(game'))
          => game'.phase = "playing"
     /\ \A slot \in Slots :
          (VerificationReturned(slot) /\ game.phase # "awaiting_wagers")
            => (game'.phase = game.phase /\ game'.startedAt = game.startedAt
                /\ turnTimers' = turnTimers)]_vars

\* C14: a deposit confirmation for a seat takes effect only when the phase is
\* awaiting_wagers and the seat is not yet confirmed; outside that guard it
\* mutates nothing, so each seat adds its deposit to the pot at most once even
\* when two submit_wager requests of the seat overlap.
C14_DepositOncePerSeat ==
  [][\A slot \in Slots :
       (VerificationReturned(slot)
        /\ (game.phase # "awaiting_wagers" \/ game[slot].wagerPaid))
         => game' = game]_vars

----------------------------------------------------------------------------
(* Pause state *)

PauseStateSet(g) == g.pausedFor # NULL /\ g.pausedAt # NULL /\ g.pauseReason # NULL

PauseStateNone(g) == g.pausedFor = NULL /\ g.pausedAt = NULL /\ g.pauseReason = NULL

\* C15: phase = paused implies the pause state (pausedFor, pausedAt, reason) is
\* set and no turn clock is live; phase = playing implies the pause state is none.
C15_PauseStateMatchesPhase ==
  /\ game.phase = "paused" => (PauseStateSet(game) /\ turnTimers # "pending")
  /\ game.phase = "playing" => PauseStateNone(game)

----------------------------------------------------------------------------
(* Moves *)

\* the seat whose colour is to move in the position
SideToMove(g) == IF g.turn = "w" THEN "white" ELSE "black"

\* a step that changed what only an applied move changes
MoveStateChanged ==
  \/ game'.moveHistory # game.moveHistory
  \/ game'.turn # game.turn
  \/ game'.capturePayments # game.capturePayments
  \/ \E slot \in Slots : game'[slot].moveCount # game[slot].moveCount

\* a socket from which a move attempt passes every guard of attemptMove
CallerMayMove(s) ==
  /\ sock[s] = "open"
  /\ s \in playerToGame
  /\ GameId \in games
  /\ game.phase = "playing"
  /\ game[SideToMove(game)].socketId = s

\* C16: a move attempt is rejected and leaves the whole state unchanged whenever
\* the caller is not in a game, the phase is not playing (a pending deposit
\* included), the caller is not the side to move or the position engine rejects
\* the move: a rejected attempt changes nothing, and position, move counts, move
\* history and capture ledger change only on a step where some caller passes all
\* of these tests.
C16_RejectedMoveNoMutation ==
  [][/\ (\E s \in Sockets, l \in BOOLEAN : MakeMoveRejected(s, l)) => UNCHANGED vars
     /\ MoveStateChanged => \E s \in Sockets : CallerMayMove(s)]_vars

\* C16 witness: white has deposited, black's deposit is pending, and black's
\* client is connected as a player of the game: its move attempts are rejected
C16_Witness ==
  /\ game.phase = "awaiting_wagers"
  /\ game.white.wagerPaid /\ ~game.black.wagerPaid
  /\ game.moveHistory = << >>
  /\ \E s \in Sockets : \E l \in BOOLEAN :
       /\ getSlot(game, s) = "black"
       /\ ENABLED MakeMoveRejected(s, l)

\* ceil(n * pct / 100), by floor division of the negated numerator
CeilPercent(n, pct) == -((-(n * pct)) \div 100)

MoveApplied == Len(game'.moveHistory) > Len(game.moveHistory)

MoveEndReasons == {"checkmate", "stalemate", "threefold_repetition",
                   "insufficient_material", "fifty_move_rule"}

\* C17: every applied move increments exactly the mover's moveCount by one,
\* appends exactly one entry to moveHistory, appends a CapturePayment and adds its
\* amount to pot if and only if a piece was taken, and restarts the turn clock
\* unless the move was terminal, in which case the game is gameover with the
\* matching reason and no turn clock is live.
C17_AppliedMoveEffects ==
  [][MoveApplied =>
       LET mover == SideToMove(game)
           other == IF mover = "white" THEN "black" ELSE "white"
           n == Len(game.capturePayments)
       IN /\ game'[mover].moveCount = game[mover].moveCount + 1
          /\ game'[other].moveCount = game[other].moveCount
          /\ Len(game'.moveHistory) = Len(game.moveHistory) + 1
          /\ SubSeq(game'.moveHistory, 1, Len(game.moveHistory)) = game.moveHistory
          /\ \/ game'.capturePayments = game.capturePayments /\ game'.pot = game.pot
             \/ /\ Len(game'.capturePayments) = n + 1
                /\ SubSeq(game'.capturePayments, 1, n) = game.capturePayments
                /\ LET e == game'.capturePayments[n + 1] IN
                     /\ e.toSlot = mover /\ e.fromSlot = other
                     /\ e.amountSats = CeilPercent(game.baseSats, PIECE_CAPTURE_PERCENT[e.piece])
                     /\ e.platformSats = CeilPercent(e.amountSats, 3)
                     /\ e.capturerSats = e.amountSats - e.platformSats
                     /\ game'.pot = game.pot + e.amountSats
          /\ \/ game'.phase = "playing" /\ turnTimers' = "pending"
             \/ /\ game'.phase = "gameover"
                /\ game'.endReason \in MoveEndReasons
                /\ turnTimers' # "pending"
                /\ game'.winner = IF game'.endReason = "checkmate" THEN mover ELSE NULL]_vars

\* C17 witness: a capturing move was applied and the game goes on: the ledger
\* holds the capture, the pot holds both deposits and the capture amount, and
\* the turn clock runs for the other side
C17_Witness ==
  /\ game.phase = "playing"
  /\ Len(game.moveHistory) = 1
  /\ Len(game.capturePayments) = 1
  /\ game.white.moveCount = 1 /\ game.black.moveCount = 0
  /\ game.pot = 2 * game.depositSats + game.capturePayments[1].amountSats
  /\ turnTimers = "pending"

\* C18: when the turn clock fires while the game is in phase playing, the game
\* ends with reason timeout and the winner is the side not to move; the turn
\* clock ends a game in no other phase.
C18_TurnTimeoutWinner ==
  [][/\ ((\E r \in BOOLEAN : TurnTimerFire(r)) /\ game.phase = "playing") =>
          /\ game'.phase = "gameover"
          /\ game'.endReason = "timeout"
          /\ game'.winner = (IF game.turn = "w" THEN "black" ELSE "white")
          /\ lastResult'.winner = game'.winner
          /\ lastResult'.reason = "timeout"
     /\ (Settled /\ lastResult'.reason = "timeout") => game.phase = "playing"]_vars

\* C18 witness: the turn clock expired on black's turn after white's first move
C18_Witness ==
  /\ game.phase = "gameover"
  /\ game.endReason = "timeout"
  /\ Len(game.moveHistory) = 1
  /\ game.winner = "white"
  /\ lastResult.reason = "timeout"

----------------------------------------------------------------------------
(* Funds pause: expiry and resume *)

\* a step on which endGame computed an insufficient_funds result
PauseClockEnded == Settled /\ lastResult'.reason = "insufficient_funds"

\* C19: when the pause clock fires while the game is still paused the game ends
\* with reason insufficient_funds and the opponent of the blocked seat wins; a
\* pause clock armed for one pause never ends the game after that pause was
\* resumed: the clock that ends the game is the one registered for the current
\* pause.
C19_PauseTimeoutWinner ==
  [][PauseClockEnded =>
       /\ game.phase = "paused"
       /\ game'.phase = "gameover"
       /\ game'.endReason = "insufficient_funds"
       /\ game'.winner = opponentSlot(game.pausedFor)
       /\ lastResult'.winner = game'.winner
       /\ leakedPause' = leakedPause]_vars

\* a funds_added handler of the seat got its balance on this step
BalanceReturned(slot) == fundsInFlight'[slot] < fundsInFlight[slot]

\* C20: when the game is paused and the blocked seat's balance is sufficient the
\* game returns to playing with the pause fields cleared, the pause clock
\* canceled and the turn clock restarted; a balance that arrives when the game is
\* no longer paused changes nothing.
C20_ResumeOnFundsAdded ==
  [][\A slot \in Slots :
       BalanceReturned(slot) =>
         IF game.phase = "paused"
         THEN \/ game' = game
              \/ /\ game'.phase = "playing"
                 /\ PauseStateNone(game')
                 /\ pauseTimers'.st # "pending"
                 /\ turnTimers' = "pending"
         ELSE game' = game /\ turnTimers' = turnTimers]_vars

----------------------------------------------------------------------------
(* Disconnect *)

OtherSeat(slot) == IF slot = "white" THEN "black" ELSE "white"

\* the seat's client went away on this step
SeatDisconnected(slot) == game[slot].connected /\ ~game'[slot].connected

\* C21: a disconnect of a seat during awaiting_wagers ends the game at once:
\* gameover with reason disconnect, a result with pot 0, zero payouts and zero
\* platform cut, no grace clock, and a refund of the full deposit to the
\* opponent's address flagged exactly when the opponent had deposited.
C21_DisconnectAwaitingWagers ==
  [][\A slot \in Slots :
       (SeatDisconnected(slot) /\ game.phase = "awaiting_wagers") =>
         /\ game'.phase = "gameover"
         /\ game'.endReason = "disconnect"
         /\ lastResult'.reason = "disconnect"
         /\ lastResult'.winner = NULL
         /\ lastResult'.pot = 0
         /\ lastResult'.winnerPayout = 0 /\ lastResult'.loserPayout = 0
         /\ lastResult'.platformCut = 0
         /\ \A x \in Slots : disconnectTimers'[x] # "pending"
         /\ IF game[OtherSeat(slot)].wagerPaid
            THEN /\ lastRefund'.address = game[OtherSeat(slot)].address
                 /\ lastRefund'.amount = game.depositSats
            ELSE lastRefund'.amount = 0 /\ lastRefund'.address = NULL]_vars

\* C21 witness: black left during awaiting_wagers after white had deposited; the
\* game is over and white's deposit is flagged for refund
C21_Witness ==
  /\ game.phase = "gameover"
  /\ game.endReason = "disconnect"
  /\ ~game.black.connected
  /\ game.white.wagerPaid /\ ~game.black.wagerPaid
  /\ lastRefund = [address |-> game.white.address, amount |-> game.depositSats]
  /\ lastResult.pot = 0

\* C22: a disconnect of a seat while the game is playing or paused marks the seat
\* disconnected, stops the turn clock and starts one grace clock for the seat,
\* and changes neither phase, pot, position nor the opponent's seat.
C22_DisconnectInPlay ==
  [][\A slot \in Slots :
       (SeatDisconnected(slot) /\ game.phase \in {"playing", "paused"}) =>
         /\ game'[slot].disconnectedAt # NULL
         /\ turnTimers' # "pending"
         /\ disconnectTimers'[slot] = "pending"
         /\ disconnectTimers'[OtherSeat(slot)] = disconnectTimers[OtherSeat(slot)]
         /\ game'.phase = game.phase
         /\ game'.pot = game.pot
         /\ game'.turn = game.turn
         /\ game'.moveHistory = game.moveHistory
         /\ game'.capturePayments = game.capturePayments
         /\ game'[OtherSeat(slot)] = game[OtherSeat(slot)]
         /\ game'[slot].socketId = game[slot].socketId
         /\ game'[slot].wagerPaid = game[slot].wagerPaid
         /\ game'[slot].moveCount = game[slot].moveCount]_vars

\* C22 witness: white left while it was black's turn; the game is still in play,
\* the turn clock is stopped and white's grace clock runs
C22_Witness ==
  /\ game.phase = "playing"
  /\ ~game.white.connected /\ game.black.connected
  /\ Len(game.moveHistory) = 1
  /\ turnTimers = "none"
  /\ disconnectTimers = [white |-> "pending", black |-> "none"]

----------------------------------------------------------------------------
(* Reconnect *)

\* handleReconnect has nothing to rebind: no such game, a finished game, or an
\* address of neither seat
ReconnectRejected(address) ==
  \/ GameId \notin games
  \/ game.phase = "gameover"
  \/ address \notin {game.white.address, game.black.address}

SeatOfAddress(address) == IF game.white.address = address THEN "white" ELSE "black"

\* C23: a reconnect attempt with an address of neither seat, for an unknown game
\* or for a game in gameover is rejected and changes nothing: seats, connection
\* registry and timers stay as they were.
C23_RejectedReconnectNoMutation ==
  [][/\ \A s \in Sockets, a \in Addresses :
          (ReconnectGame(s, a) /\ ReconnectRejected(a)) => UNCHANGED vars
     /\ (/\ game.phase # NULL
         /\ \E slot \in Slots :
              \/ game'[slot].socketId # game[slot].socketId
              \/ (~game[slot].connected /\ game'[slot].connected))
        => (GameId \in games /\ game.phase # "gameover")]_vars

\* C23 witness: the game is over and removed while white is still disconnected
\* and a new connection, free to present white's address, is open
C23_Witness ==
  /\ game.phase = "gameover"
  /\ GameId \notin games
  /\ ~game.white.connected
  /\ sock[3] = "open"
  /\ ENABLED ReconnectGame(3, P1Addr)

\* C24: a reconnect with a seat's address, in a game that is not gameover, cancels
\* the seat's grace clock, marks the seat connected, binds it to the new
\* connection, and restarts the turn clock exactly when the phase is playing and
\* no deposit request is pending; the seat's grace clock is then no longer armed.
C24_ReconnectRestoresSeat ==
  [][\A s \in Sockets, a \in Addresses :
       (ReconnectGame(s, a) /\ ~ReconnectRejected(a)) =>
         LET slot == SeatOfAddress(a) IN
           /\ disconnectTimers'[slot] # "pending"
           /\ game'[slot].connected
           /\ game'[slot].disconnectedAt = NULL
           /\ game'[slot].socketId = s
           /\ s \in playerToGame'
           /\ game'.phase = game.phase
           /\ IF game.phase = "playing" /\ game.pendingPayment = NULL
              THEN turnTimers' = "pending"
              ELSE turnTimers' = turnTimers]_vars

\* C24 witness: white came back on a new connection during play; its grace clock
\* is gone and the turn clock runs again
C24_Witness ==
  /\ game.phase = "playing"
  /\ sock[P1Sid] = "closed"
  /\ game.white.connected /\ game.white.socketId = 3
  /\ disconnectTimers.white = "none"
  /\ turnTimers = "pending"

\* C25: a seat's grace clock that expires while the seat is still disconnected
\* and the game is not gameover ends the game with reason disconnect and the
\* opponent as winner; a game never ends this way for a seat that is connected.
C25_GraceExpiryForfeits ==
  [][/\ \A slot \in Slots :
          (/\ DisconnectTimerFire(slot)
           /\ GameId \in games /\ game.phase # "gameover"
           /\ ~game[slot].connected)
          => /\ game'.phase = "gameover"
             /\ game'.endReason = "disconnect"
             /\ game'.winner = OtherSeat(slot)
             /\ lastResult'.reason = "disconnect"
             /\ lastResult'.winner = OtherSeat(slot)
     /\ (/\ game.phase \in {"playing", "paused"}
         /\ game'.phase = "gameover"
         /\ game'.endReason = "disconnect")
        => \E slot \in Slots :
             /\ ~game[slot].connected
             /\ disconnectTimers[slot] = "pending"
             /\ game'.winner = OtherSeat(slot)]_vars

\* C25 witness: black never came back; the game ended by disconnect and white won
C25_Witness ==
  /\ game.phase = "gameover"
  /\ game.endReason = "disconnect"
  /\ game.winner = "white"
  /\ ~game.black.connected
  /\ game.white.connected
  /\ lastResult.winner = "white"

----------------------------------------------------------------------------
(* Resign *)

SeatOfSocket(s) ==
  IF game.white.socketId = s THEN "white"
  ELSE IF game.black.socketId = s THEN "black"
  ELSE NULL

\* C26: resign by a seated player in a phase other than gameover ends the game
\* with the opponent as winner and reason resignation and hands the game to
\* settlement; nothing is ended by resignation in a game that is gameover or for
\* a connection that is not a seat.
C26_Resign ==
  [][/\ \A s \in Sockets :
          Resign(s) =>
            /\ game.phase # "gameover"
            /\ SeatOfSocket(s) # NULL
            /\ game'.phase = "gameover"
            /\ game'.endReason = "resignation"
            /\ game'.winner = OtherSeat(SeatOfSocket(s))
            /\ lastResult'.reason = "resignation"
            /\ lastResult'.winner = OtherSeat(SeatOfSocket(s))
            /\ gameEndCalls' = gameEndCalls + 1
     /\ (endGameCalls' # endGameCalls /\ lastResult'.reason = "resignation")
        => /\ game.phase \in {"awaiting_wagers", "playing", "paused"}
           /\ \E s \in Sockets :
                /\ sock[s] = "open"
                /\ SeatOfSocket(s) # NULL
                /\ game'.winner = OtherSeat(SeatOfSocket(s))]_vars

\* C26 witness: white resigned while the game was paused; black won and the game
\* went to settlement
C26_Witness ==
  /\ game.phase = "gameover"
  /\ game.endReason = "resignation"
  /\ game.winner = "black"
  /\ game.pausedAt # NULL
  /\ gameEndCalls = 1

----------------------------------------------------------------------------
(* removeGame *)

\* C28: removeGame releases every connection binding of the game, also those of
\* connections a reconnect replaced, cancels all its timers, and changes nothing
\* when the game is already gone.
C28_RemoveGameReleasesAll ==
  [][RemoveGame =>
       IF GameId \in games
       THEN /\ GameId \notin games'
            /\ playerToGame' = {}
            /\ turnTimers' # "pending"
            /\ pauseTimers'.st # "pending"
            /\ \A slot \in Slots : disconnectTimers'[slot] # "pending"
       ELSE UNCHANGED << games, playerToGame, game, turnTimers, pauseTimers,
                         disconnectTimers >>]_vars

----------------------------------------------------------------------------
(* Registry *)

\* C27: a connection identifier is the bound connection of a seat in at most one
\* game that is not gameover.
C27_OneActiveGamePerConnection ==
  \A s \in RegSockets : \A i \in RegGameIds, j \in RegGameIds :
    (RegSeated(i, s) /\ RegSeated(j, s)) => i = j

----------------------------------------------------------------------------
(* createGame *)

KnownTierIds == {1, 25, 50, 100, 500, 1000}

\* C29: createGame fails only for an unknown tier, and then answers not-found
\* without registering a game or binding a connection; for a known tier it
\* registers one game in awaiting_wagers with pot 0, both seats unconfirmed and
\* connected, and binds both connections to it.
C29_CreateGameOutcome ==
  [][\A t \in TierInputs, p \in PriceInputs, w \in ColorInputs :
       CreateGame(t, p, w) =>
         IF t \in KnownTierIds
         THEN /\ createOutcome' = "game"
              /\ games' = {GameId}
              /\ game'.phase = "awaiting_wagers"
              /\ game'.pot = 0
              /\ \A slot \in Slots : ~game'[slot].wagerPaid /\ game'[slot].connected
              /\ {game'.white.socketId, game'.black.socketId} = {P1Sid, P2Sid}
              /\ {P1Sid, P2Sid} \subseteq playerToGame'
         ELSE /\ createOutcome' = "not_found"
              /\ UNCHANGED << games, playerToGame, game >>]_vars

----------------------------------------------------------------------------
(* Capture ledger *)

CapturePercentOf == [q |-> 90, r |-> 80, b |-> 70, n |-> 70, p |-> 20]

LastCapture == game'.capturePayments[Len(game'.capturePayments)]

\* C30: every capture appends a ledger entry with totalAmount =
\* ceil(baseAmount * percent / 100) for percent queen 90, rook 80, bishop and
\* knight 70, pawn 20, platformShare = ceil(totalAmount * 3 / 100) and
\* capturerShare = totalAmount - platformShare, and adds totalAmount to the pot;
\* a pawn captured at base 100000 gives 20000 / 600 / 19400.
C30_CaptureLedgerEntry ==
  [][Len(game'.capturePayments) # Len(game.capturePayments) =>
       /\ Len(game'.capturePayments) = Len(game.capturePayments) + 1
       /\ LastCapture.piece \in DOMAIN CapturePercentOf
       /\ LastCapture.amountSats =
            CeilPercent(game.baseSats, CapturePercentOf[LastCapture.piece])
       /\ LastCapture.platformSats = CeilPercent(LastCapture.amountSats, 3)
       /\ LastCapture.capturerSats = LastCapture.amountSats - LastCapture.platformSats
       /\ game'.pot = game.pot + LastCapture.amountSats
       /\ (game.baseSats = 100000 /\ LastCapture.piece = "p") =>
            /\ LastCapture.amountSats = 20000
            /\ LastCapture.platformSats = 600
            /\ LastCapture.capturerSats = 19400
            /\ game'.pot = game.pot + 20000]_vars

\* C30 witness: at base 100000 a pawn and then a rook were captured
C30_Witness ==
  /\ game.baseSats = 100000
  /\ Len(game.capturePayments) = 2
  /\ game.capturePayments[1].piece = "p"
  /\ game.capturePayments[1].amountSats = 20000
  /\ game.capturePayments[1].platformSats = 600
  /\ game.capturePayments[1].capturerSats = 19400
  /\ game.capturePayments[2].piece = "r"
  /\ game.capturePayments[2].amountSats = 80000
  /\ game.pot = 2 * game.depositSats + 100000

----------------------------------------------------------------------------
(* Settlement scenarios *)

\* a game of the 100-cent tier created at price 50 ended by checkmate with an
\* empty capture ledger
CheckmateNoCapturesAt50 ==
  /\ game.phase = "gameover"
  /\ game.endReason = "checkmate"
  /\ game.bsvPriceAtStart = 50
  /\ game.capturePayments = << >>
  /\ lastResult.reason = "checkmate"

\* C31 as stated: deposit 100 cents and base 100 cents at price 50 give
\* depositAmount 200000 per seat, and a checkmate with zero captures settles with
\* winnerPayout 394000 and platformCut 6000.
C31_ScenarioAsStated ==
  CheckmateNoCapturesAt50 =>
    /\ game.depositSats = 200000
    /\ lastResult.winnerPayout = 394000
    /\ lastResult.platformCut = 6000

\* C31 amended: deposit 100 cents and base 100 cents at price 50 give
\* depositAmount 2000000 per seat, and a checkmate with zero captures settles
\* with winnerPayout 3940000 and platformCut 60000.
C31_ScenarioAmended ==
  CheckmateNoCapturesAt50 =>
    /\ game.depositSats = 2000000
    /\ game.baseSats = 2000000
    /\ lastResult.winnerPayout = 3940000
    /\ lastResult.platformCut = 60000
    /\ lastResult.loserPayout = 0

\* C31 witness: white mated at price 50 without any capture
C31_Witness ==
  /\ CheckmateNoCapturesAt50
  /\ game.winner = "white"
  /\ lastResult.winner = "white"
  /\ lastResult.winnerPayout = 3940000

\* the move that has just been applied ended the game by checkmate
CheckmateDelivered ==
  /\ game.phase = "playing"
  /\ Len(game'.moveHistory) = Len(game.moveHistory) + 1
  /\ game'.phase = "gameover"
  /\ game'.endReason = "checkmate"

\* C32: checkmate counts as a king capture: the mating move accounts a payment
\* of the king value, 100% of the base amount, from the loser to the winner, on
\* top of the deposit payout.
C32_CheckmateKingCapture ==
  [][CheckmateDelivered =>
       \E i \in 1..Len(game'.capturePayments) :
         /\ i > Len(game.capturePayments)
         /\ game'.capturePayments[i].piece = "k"
         /\ game'.capturePayments[i].amountSats = game.baseSats
         /\ game'.capturePayments[i].toSlot = game'.winner
         /\ game'.capturePayments[i].fromSlot = OtherSeat(game'.winner)]_vars

----------------------------------------------------------------------------
(* Move attempts against the turn clock *)

EndedByTurnClock ==
  /\ game.phase = "playing"
  /\ game'.phase = "gameover"
  /\ game'.endReason = "timeout"

\* C33: a move attempt and a turn-clock expiry of the same game never both act
\* in one step: a step that applies a move is not a timeout and a timeout applies
\* no move; once the game is gameover a move attempt changes nothing; and after
\* an applied move the clock it superseded is no longer pending, so only the
\* clock armed by the latest start can end the game.
C33_MoveAndTurnClockSerialized ==
  [][/\ game'.moveHistory # game.moveHistory =>
          /\ game.phase = "playing"
          /\ Len(game'.moveHistory) = Len(game.moveHistory) + 1
          /\ ~EndedByTurnClock
          /\ leakedTurn' = 0
          /\ game'.phase = "playing" => turnTimers' = "pending"
     /\ EndedByTurnClock =>
          /\ game'.moveHistory = game.moveHistory
          /\ game'.pot = game.pot
          /\ game'.turn = game.turn
          /\ turnTimers = "pending"
          /\ leakedTurn = 0
     /\ game.phase = "gameover" =>
          /\ game'.moveHistory = game.moveHistory
          /\ game'.turn = game.turn
          /\ game'.capturePayments = game.capturePayments]_vars

\* C33 witness: white moved, then black's turn clock ran out and ended the game;
\* black's move attempt is now rejected
C33_Witness ==
  /\ game.phase = "gameover"
  /\ game.endReason = "timeout"
  /\ game.winner = "white"
  /\ Len(game.moveHistory) = 1
  /\ leakedTurn = 0
  /\ sock[game.black.socketId] = "open"
  /\ ENABLED MakeMoveRejected(game.black.socketId, TRUE)

----------------------------------------------------------------------------
(* Accounting *)

ConfirmedSeats == Cardinality({slot \in Slots : game[slot].wagerPaid})

RECURSIVE LedgerTotal(_)
LedgerTotal(cps) ==
  IF cps = << >> THEN 0 ELSE Head(cps).amountSats + LedgerTotal(Tail(cps))

\* C34: before gameover the pot is the deposit amount times the number of seats
\* with a confirmed deposit plus the total of the capture ledger, and every
\* ledger entry splits its total into a capturer share and a platform share,
\* all three non-negative.
C34_PotAccounting ==
  game.phase \in {"awaiting_wagers", "playing", "paused"} =>
    /\ game.pot = game.depositSats * ConfirmedSeats + LedgerTotal(game.capturePayments)
    /\ \A i \in 1..Len(game.capturePayments) :
         LET e == game.capturePayments[i] IN
           /\ e.amountSats = e.capturerSats + e.platformSats
           /\ e.amountSats >= 0 /\ e.capturerSats >= 0 /\ e.platformSats >= 0

\* a termination path has just computed a result
ResultComputed == endGameCalls' # endGameCalls \/ lastResult' # lastResult

\* C35: no pot leak: on every termination path, from every phase, the amounts of
\* the result satisfy winnerPayout + loserPayout + platformCut <= the pot the
\* game has accumulated at that moment.
C35_NoPotLeak ==
  [][ResultComputed =>
       lastResult'.winnerPayout + lastResult'.loserPayout + lastResult'.platformCut
         <= game'.pot]_vars

----------------------------------------------------------------------------
(* Draw by agreement *)

\* C36: a game ends with reason draw_agreement only if a draw offer of one seat
\* is outstanding and the acceptance comes from the current connection of the
\* other seat; no acceptance without an offer of the opponent, by the offerer
\* itself or by a connection that is no current seat ends the game.
C36_DrawNeedsOffer ==
  [][\A s \in Sockets :
       (AcceptDraw(s) /\ game'.endReason = "draw_agreement") =>
         /\ drawOfferSeen # NULL
         /\ SeatOfSocket(s) # NULL
         /\ SeatOfSocket(s) = OtherSeat(drawOfferSeen)]_vars

----------------------------------------------------------------------------
(* Idle games *)

\* a pending timer whose expiry ends the game in its present phase
EndingTimerPending ==
  \/ game.phase = "playing" /\ (turnTimers = "pending" \/ leakedTurn > 0)
  \/ /\ game.phase = "paused"
     /\ \/ pauseTimers.st = "pending"
        \/ \E slot \in Slots : leakedPause[slot] > 0
  \/ \E slot \in Slots : ~game[slot].connected /\ disconnectTimers[slot] = "pending"

\* C37: a game in phase playing or paused always has a pending timer that can
\* end it (turn clock, pause clock or the grace clock of a disconnected seat), so
\* an idle game reaches gameover once its timers fire.
C37_IdleGameCanEnd ==
  (GameId \in games /\ game.phase \in {"playing", "paused"}) => EndingTimerPending

----------------------------------------------------------------------------
(* Reconnect to a connected seat, draw settlement, lobby *)

\* C38: handleReconnect rebinds a seat only when the seat is marked
\* disconnected: a reconnect naming the address of a seat that is still
\* connected neither replaces the seat's connection nor restarts the turn clock.
C38_ReconnectOnlyWhenDisconnected ==
  [][\A s \in Sockets, a \in Addresses :
       (/\ ReconnectGame(s, a)
        /\ ~ReconnectRejected(a)
        /\ game[SeatOfAddress(a)].connected)
       => /\ game'[SeatOfAddress(a)].socketId = game[SeatOfAddress(a)].socketId
          /\ playerToGame' = playerToGame
          /\ turnTimers' = turnTimers]_vars

\* handleGameEnd has just called escrowManager.settle for a draw
DrawSettleCalled ==
  /\ geSettling' = geSettling + 1
  /\ lastResult'.winner = NULL
  /\ lastResult'.reason \in DrawReasons

\* C39: on a draw the settlement pays each seat its own share at its own
\* address, white the winnerPayout and black the loserPayout, and passes exactly
\* the result's platformCut as the platform amount.
C39_DrawSettlementShares ==
  [][DrawSettleCalled =>
       /\ lastSettle'.to = game'.white.address
       /\ lastSettle'.amount = lastResult'.winnerPayout
       /\ lastSettle'.platform = lastResult'.platformCut]_vars

\* C40: the lobby's address index and player table agree: every address with an
\* entry maps to a socket whose record has that address, and every record's
\* address maps back to its socket.
C40_LobbyIndexConsistent ==
  /\ \A a \in LobbyAddresses :
       addressToSocket[a] # 0 => lobbyPlayers[addressToSocket[a]] = a
  /\ \A s \in LobbySockets :
       lobbyPlayers[s] # 0 => addressToSocket[lobbyPlayers[s]] = s

====
